---- MODULE Spec2Model ----
(***************************************************************************)
(* Model of src/src/lib.rs: the Djikstra engine (run, find_minimal_distance,*)
(* get_distance, get_neighbors, get_minimum, is_settled,                    *)
(* get_shortest_distance, get_path) over the Vertex / Edge / Graph types.   *)
(***************************************************************************)
EXTENDS Integers, Sequences, FiniteSets, TLC

(***************************************************************************)
(* Bounds: the longest edge list of a graph, and the longest one in the     *)
(* behaviours checked under fairness.                                       *)
(***************************************************************************)
MaxEdges == 3
MaxFairEdges == 2

(***************************************************************************)
(* std::i32::MAX.                                                           *)
(***************************************************************************)
I32_MAX == 2147483647

(***************************************************************************)
(* Data types.  Vertex derives Hash, PartialEq, Eq over BOTH fields, so a   *)
(* Vertex value is the record of id and name, and HashSet<Vertex> is a set  *)
(* of such records.  The maps are keyed by the id String alone.             *)
(***************************************************************************)
Vertex(id, name) == [id |-> id, name |-> name]

Edge(id, source, destination, weight) ==
    [id |-> id, source |-> source, destination |-> destination, weight |-> weight]

Graph(vertices, edges) == [vertices |-> vertices, edges |-> edges]

(***************************************************************************)
(* The inputs the model draws from.                                         *)
(***************************************************************************)
Ids == {"A", "B", "C"}
VA == Vertex("A", "a")
VA2 == Vertex("A", "a2")
VB == Vertex("B", "b")
VC == Vertex("C", "c")
VertexValues == {VA, VA2, VB, VC}

\* Edges are named after their endpoints, as the tests do ("AB", "BC", ...).
E(s, d, w) == Edge(s.id \o d.id, s, d, w)

\* The edges a graph is made of, with weights 0, 1 and i32::MAX: parallel
\* edges from A to B, a second way out of A, edges into C, a cycle back to A,
\* a self-loop on A, and edges (one of them a self-loop too) whose destination
\* carries the id of A under another name.
EdgeValues ==
    {E(VA, VB, 0), E(VA, VB, 1), E(VA, VB, I32_MAX),
     E(VA, VC, 0), E(VA, VC, 1),
     E(VB, VC, 0), E(VB, VC, I32_MAX),
     E(VB, VA, 1), E(VA, VA, 1),
     E(VB, VA2, I32_MAX), E(VC, VA2, 0), E(VA, VA2, I32_MAX)}

RECURSIVE SeqsUpTo(_, _)
SeqsUpTo(S, n) ==
    IF n = 0 THEN {<< >>}
    ELSE LET shorter == SeqsUpTo(S, n - 1)
         IN shorter \cup {Append(q, x) : q \in {p \in shorter : Len(p) = n - 1}, x \in S}

EdgeLists == SeqsUpTo(EdgeValues, MaxEdges)
\* The vertex list of the graph names A and B; C and the second name of A
\* occur only as endpoints of edges.
VertexLists == {<<VA, VB>>}
Sources == {VA, VB}

(***************************************************************************)
(* HashMap<String, _>: a function whose domain is the set of keys.          *)
(***************************************************************************)
EmptyMap == [k \in {} |-> 0]
MapInsert(m, key, value) ==
    [k \in (DOMAIN m) \cup {key} |-> IF k = key THEN value ELSE m[k]]

(***************************************************************************)
(* Every iteration order of a HashSet.                                      *)
(***************************************************************************)
Orders(S) ==
    {o \in [1..Cardinality(S) -> S] : \A i, j \in 1..Cardinality(S) : o[i] = o[j] => i = j}

(***************************************************************************)
(* Djikstra::new: the engine right after construction.                      *)
(***************************************************************************)
New(graph) ==
    [nodes |-> graph.vertices,
     edges |-> graph.edges,
     settled_nodes |-> {},
     unsettled_nodes |-> {},
     predecessors |-> EmptyMap,
     distance |-> EmptyMap]

(***************************************************************************)
(* i32 addition a + b for b >= 0.  Overflows(a, b) tells that the           *)
(* mathematical sum is above i32::MAX; WrappingAdd is the two's complement  *)
(* result a build without overflow checks stores.                           *)
(***************************************************************************)
Overflows(a, b) == a > I32_MAX - b
WrappingAdd(a, b) ==
    IF Overflows(a, b) THEN (a - I32_MAX - 1) + (b - I32_MAX - 1) ELSE a + b

is_settled(self, vertex) == vertex \in self.settled_nodes

get_shortest_distance(self, destination) ==
    IF destination.id \in DOMAIN self.distance
    THEN self.distance[destination.id]
    ELSE I32_MAX

RECURSIVE get_distance_from(_, _, _, _, _)
get_distance_from(self, node, target, i, weight) ==
    IF i > Len(self.edges) THEN weight
    ELSE LET edge == self.edges[i]
         IN get_distance_from(self, node, target, i + 1,
                IF edge.source.id = node.id /\ edge.destination.id = target.id
                THEN edge.weight ELSE weight)

get_distance(self, node, target) == get_distance_from(self, node, target, 1, 0)

\* get_neighbors without the test of the edge's source.
get_neighbors_any_source(self, node) ==
    SelectSeq([i \in 1..Len(self.edges) |-> self.edges[i].destination],
              LAMBDA v : ~is_settled(self, v))

RECURSIVE get_neighbors_from(_, _, _, _)
get_neighbors_from(self, node, i, neighbors) ==
    IF i > Len(self.edges) THEN neighbors
    ELSE LET edge == self.edges[i]
         IN get_neighbors_from(self, node, i + 1,
                IF edge.source.id = node.id /\ ~is_settled(self, edge.destination)
                THEN Append(neighbors, edge.destination) ELSE neighbors)

get_neighbors(self, node) == get_neighbors_from(self, node, 1, << >>)

(***************************************************************************)
(* get_minimum over the set iterated in the order `vertices`: << >> is      *)
(* None, <<v>> is Some(v).                                                  *)
(***************************************************************************)
RECURSIVE get_minimum_from(_, _, _, _)
get_minimum_from(self, vertices, i, minimum) ==
    IF i > Len(vertices) THEN minimum
    ELSE LET vertex == vertices[i]
         IN get_minimum_from(self, vertices, i + 1,
                IF minimum = << >> THEN <<vertex>>
                ELSE IF get_shortest_distance(self, vertex)
                          < get_shortest_distance(self, minimum[1])
                     THEN <<vertex>> ELSE minimum)

\* get_minimum whose iteration misses the first vertex.
get_minimum_skips_first(self, vertices) == get_minimum_from(self, vertices, 2, << >>)

\* get_minimum that takes the first vertex of the iteration, comparing nothing.
get_minimum_takes_first(self, vertices) ==
    IF Len(vertices) = 0 THEN << >> ELSE <<vertices[1]>>

get_minimum(self, vertices) == get_minimum_from(self, vertices, 1, << >>)

(***************************************************************************)
(* find_minimal_distance: the relaxation of every neighbour of node.  The   *)
(* result carries the engine and whether the i32 addition panicked (a build *)
(* with overflow checks) on the way; with checks off the sum wraps.         *)
(***************************************************************************)
RECURSIVE relax_from(_, _, _, _, _)
relax_from(self, node, adjacent_nodes, i, checks) ==
    IF i > Len(adjacent_nodes) THEN [engine |-> self, panic |-> FALSE]
    ELSE LET target == adjacent_nodes[i]
             d == get_shortest_distance(self, node)
             w == get_distance(self, node, target)
         IN IF checks /\ Overflows(d, w) THEN [engine |-> self, panic |-> TRUE]
            ELSE IF get_shortest_distance(self, target) > WrappingAdd(d, w)
                 THEN relax_from(
                        [self EXCEPT
                           !.distance = MapInsert(@, target.id, WrappingAdd(d, w)),
                           !.predecessors = MapInsert(@, target.id, node),
                           !.unsettled_nodes = @ \cup {target}],
                        node, adjacent_nodes, i + 1, checks)
                 ELSE relax_from(self, node, adjacent_nodes, i + 1, checks)

find_minimal_distance(self, node, checks) ==
    relax_from(self, node, get_neighbors(self, node), 1, checks)

(***************************************************************************)
(* run, lines 68-74: the reset and the seeding of the source.               *)
(***************************************************************************)
\* run without the reset of the two maps.
run_reset_keeps_maps(self, src) ==
    [self EXCEPT
       !.settled_nodes = {},
       !.unsettled_nodes = {src},
       !.distance = MapInsert(@, src.id, 0)]

run_reset(self, src) ==
    [self EXCEPT
       !.settled_nodes = {},
       !.unsettled_nodes = {src},
       !.distance = MapInsert(EmptyMap, src.id, 0),
       !.predecessors = EmptyMap]

(***************************************************************************)
(* run, lines 77-83: one iteration of the while loop, the unsettled set     *)
(* being iterated in the order `vertices`.  outcome is "ok", "overflow"     *)
(* (the addition panicked) or "error" (panic!("Error")).                    *)
(***************************************************************************)
\* One iteration that forgets to remove the chosen node from unsettled.
run_iteration_keeps_node(self, vertices, checks) ==
    LET minimum == get_minimum(self, vertices)
    IN IF minimum = << >> THEN [engine |-> self, outcome |-> "error"]
       ELSE LET node == minimum[1]
                moved == [self EXCEPT !.settled_nodes = @ \cup {node}]
                r == find_minimal_distance(moved, node, checks)
            IN [engine |-> r.engine,
                outcome |-> IF r.panic THEN "overflow" ELSE "ok"]

run_iteration(self, vertices, checks) ==
    LET minimum == get_minimum(self, vertices)
    IN IF minimum = << >> THEN [engine |-> self, outcome |-> "error"]
       ELSE LET node == minimum[1]
                moved == [self EXCEPT !.settled_nodes = @ \cup {node},
                                      !.unsettled_nodes = @ \ {node}]
                r == find_minimal_distance(moved, node, checks)
            IN [engine |-> r.engine,
                outcome |-> IF r.panic THEN "overflow" ELSE "ok"]

(***************************************************************************)
(* get_path.  The walk along the predecessor links is cut after `fuel`      *)
(* steps: more links than keys means the links cycle and the code's while   *)
(* loop never ends (diverges).                                              *)
(***************************************************************************)
RECURSIVE get_path_walk(_, _, _, _)
get_path_walk(self, step, path, fuel) ==
    IF step.id \notin DOMAIN self.predecessors
    THEN [path |-> path, diverges |-> FALSE]
    ELSE IF fuel = 0 THEN [path |-> path, diverges |-> TRUE]
         ELSE LET s == self.predecessors[step.id]
              IN get_path_walk(self, s, Append(path, s.id), fuel - 1)

Reverse(s) == [i \in 1..Len(s) |-> s[Len(s) + 1 - i]]

get_path(self, target) ==
    IF target.id \notin DOMAIN self.predecessors
    THEN [path |-> << >>, diverges |-> FALSE]
    ELSE LET r == get_path_walk(self, target, <<target.id>>,
                                Cardinality(DOMAIN self.predecessors) + 1)
         IN [path |-> Reverse(r.path), diverges |-> r.diverges]

(***************************************************************************)
(* State.                                                                   *)
(***************************************************************************)
VARIABLES
    engine,           \* the Djikstra value the caller keeps and re-runs
    fresh,            \* a Djikstra value constructed anew for the current run
    source,           \* the argument of the current (or last) run; << >> before the first
    earlier,          \* the ids that had a distance entry when the run before it returned
    pc,               \* "idle", "loop", "done", "panic_overflow", "panic_error"
    overflow_checks,  \* whether the build panics on i32 overflow (debug) or wraps
    iterations        \* number of while-loop iterations of the current run

vars == <<engine, fresh, source, earlier, pc, overflow_checks, iterations>>

TheGraph == Graph(engine.nodes, engine.edges)

InitWith(lists) ==
    /\ \E vertices \in VertexLists, edges \in lists :
          /\ engine = New(Graph(vertices, edges))
          /\ fresh = New(Graph(vertices, edges))
    /\ source = << >>
    /\ earlier = {}
    /\ pc = "idle"
    /\ overflow_checks \in BOOLEAN
    /\ iterations = 0

Init == InitWith(EdgeLists)

(***************************************************************************)
(* run(source) is called: lines 67-74.                                      *)
(***************************************************************************)
Run(src) ==
    /\ pc \in {"idle", "done"}
    /\ engine' = run_reset(engine, src)
    /\ fresh' = run_reset(New(TheGraph), src)
    /\ source' = src
    /\ earlier' = DOMAIN engine.distance
    /\ pc' = "loop"
    /\ iterations' = 0
    /\ UNCHANGED overflow_checks

(***************************************************************************)
(* One iteration of the while loop of run: lines 76-84.                     *)
(***************************************************************************)
Iterate ==
    /\ pc = "loop"
    /\ Cardinality(engine.unsettled_nodes) > 0
    /\ \E vertices \in Orders(engine.unsettled_nodes) :
          LET r == run_iteration(engine, vertices, overflow_checks)
              f == run_iteration(fresh, vertices, overflow_checks)
          IN /\ engine' = r.engine
             /\ fresh' = f.engine
             /\ pc' = CASE r.outcome = "ok" -> "loop"
                        [] r.outcome = "overflow" -> "panic_overflow"
                        [] OTHER -> "panic_error"
    /\ iterations' = iterations + 1
    /\ UNCHANGED <<source, earlier, overflow_checks>>

(***************************************************************************)
(* The while condition fails and run returns: lines 76 and 85.              *)
(***************************************************************************)
Return ==
    /\ pc = "loop"
    /\ Cardinality(engine.unsettled_nodes) = 0
    /\ pc' = "done"
    /\ UNCHANGED <<engine, fresh, source, earlier, overflow_checks, iterations>>

Next ==
    \/ \E src \in Sources : Run(src)
    \/ Iterate
    \/ Return

Spec == Init /\ [][Next]_vars

\* run is sequential code: once called, its loop keeps stepping until it
\* returns or panics.  The behaviours are checked over the graphs of at most
\* MaxFairEdges edges.
FairInit == InitWith(SeqsUpTo(EdgeValues, MaxFairEdges))

FairSpec == FairInit /\ [][Next]_vars /\ WF_vars(Iterate) /\ WF_vars(Return)

(***************************************************************************)
(* The graphs of the two tests, tests::simple and tests::simple2, and the   *)
(* engine constructed from either.                                          *)
(***************************************************************************)
VD == Vertex("D", "d")
VE == Vertex("E", "e")
VF == Vertex("F", "f")

SimpleGraph ==
    Graph(<<VA, VB, VC, VD, VE>>,
          <<E(VA, VB, 10), E(VA, VD, 80), E(VB, VE, 20), E(VB, VC, 50),
            E(VD, VC, 50), E(VC, VE, 50), E(VE, VC, 20), E(VE, VD, 40)>>)

Simple2Graph ==
    Graph(<<VA, VB, VC, VD, VE, VF>>,
          <<E(VA, VB, 10), E(VA, VC, 20), E(VB, VD, 50), E(VB, VE, 10),
            E(VC, VD, 20), E(VC, VE, 33), E(VD, VE, 20), E(VD, VF, 2),
            E(VE, VF, 1)>>)

TestInit ==
    /\ \E graph \in {SimpleGraph, Simple2Graph} :
          /\ engine = New(graph)
          /\ fresh = New(graph)
    /\ source = << >>
    /\ earlier = {}
    /\ pc = "idle"
    /\ overflow_checks \in BOOLEAN
    /\ iterations = 0

TestSpec == TestInit /\ [][Next]_vars

(***************************************************************************)
(* Reference notions the properties are stated with: the directed graph on  *)
(* vertex ids the edge list describes, reachability in it, and the exact    *)
(* weight of a cheapest path.  A weight is a record: fits tells whether it  *)
(* is at most i32::MAX, and w is the weight when it fits.                   *)
(***************************************************************************)
EdgeSet == {engine.edges[i] : i \in 1..Len(engine.edges)}

HasEdge(a, b) == \E e \in EdgeSet : e.source.id = a /\ e.destination.id = b

RECURSIVE ReachableFrom(_)
ReachableFrom(R) ==
    LET more == R \cup {e.destination.id : e \in {x \in EdgeSet : x.source.id \in R}}
    IN IF more = R THEN R ELSE ReachableFrom(more)

ReachableIds == IF source = << >> THEN {} ELSE ReachableFrom({source.id})

AllIds == Ids \cup {e.destination.id : e \in EdgeSet}

Fits(n) == [fits |-> TRUE, w |-> n]
Beyond == [fits |-> FALSE, w |-> 0]
Plus(x, n) == IF x.fits /\ ~Overflows(x.w, n) THEN Fits(x.w + n) ELSE Beyond
Less(x, y) == x.fits /\ (~y.fits \/ x.w < y.w)
Least(S) == CHOOSE x \in S : \A y \in S : ~Less(y, x)

\* Cheapest weights of the paths of at most k edges from the source: a function
\* on the ids such a path reaches.
RECURSIVE Cheapest(_)
Cheapest(k) ==
    IF k = 0 THEN [v \in {source.id} |-> Fits(0)]
    ELSE LET c == Cheapest(k - 1)
             into(v) == {e \in EdgeSet : e.source.id \in DOMAIN c /\ e.destination.id = v}
             cand(v) == {Plus(c[e.source.id], e.weight) : e \in into(v)}
                            \cup (IF v \in DOMAIN c THEN {c[v]} ELSE {})
         IN [v \in {u \in AllIds : cand(u) # {}} |-> Least(cand(v))]

\* With weights >= 0 a cheapest path repeats no vertex, so it has fewer edges
\* than there are ids.
MinPathWeight == Cheapest(Cardinality(AllIds))

\* The weights a vertex sequence can have: one edge is picked for each
\* consecutive pair (several when edges are parallel).
RECURSIVE SequenceWeights(_, _)
SequenceWeights(path, i) ==
    IF i >= Len(path) THEN {Fits(0)}
    ELSE {Plus(x, e.weight) :
            x \in SequenceWeights(path, i + 1),
            e \in {y \in EdgeSet : y.source.id = path[i] /\ y.destination.id = path[i + 1]}}

Finished == pc = "done"
Started == pc # "idle"

(***************************************************************************)
(* C1  Optimality: after run(source) returns, every vertex reachable from   *)
(* the source has a distance entry equal to the minimum sum of edge weights *)
(* over all directed paths from the source to it.                           *)
(***************************************************************************)
C1_Optimality ==
    Finished =>
        \A v \in ReachableIds :
            /\ v \in DOMAIN engine.distance
            /\ MinPathWeight[v] = Fits(engine.distance[v])

(***************************************************************************)
(* C2  After run(source), for every target reachable from the source and    *)
(* distinct from it, get_path(target) returns a non-empty sequence from the *)
(* source's id to the target's id whose consecutive pairs are edges.        *)
(***************************************************************************)
IsTravelPath(path, from, to) ==
    /\ Len(path) > 0
    /\ path[1] = from
    /\ path[Len(path)] = to
    /\ \A i \in 1..(Len(path) - 1) : HasEdge(path[i], path[i + 1])

C2_PathToReachable ==
    Finished =>
        \A target \in VertexValues :
            (target.id \in ReachableIds /\ target.id # source.id) =>
                LET r == get_path(engine, target)
                IN ~r.diverges /\ IsTravelPath(r.path, source.id, target.id)

(***************************************************************************)
(* C3  Path/distance consistency: after run(source), for every reachable    *)
(* vertex v other than the source, the edge weights along get_path(v) sum   *)
(* to the distance entry of v.                                              *)
(***************************************************************************)
C3_PathWeightIsDistance ==
    Finished =>
        \A target \in VertexValues :
            (target.id \in ReachableIds /\ target.id # source.id) =>
                LET r == get_path(engine, target)
                IN /\ ~r.diverges
                   /\ target.id \in DOMAIN engine.distance
                   /\ Fits(engine.distance[target.id]) \in SequenceWeights(r.path, 1)

(***************************************************************************)
(* C4  During and after run(source), a vertex with no directed path from    *)
(* the source is in neither unsettled nor settled, has no distance entry    *)
(* and no predecessor entry, and get_path on it returns the empty sequence  *)
(* (a normal return).                                                       *)
(***************************************************************************)
NoPath == [path |-> << >>, diverges |-> FALSE]

C4_UnreachableAbsent ==
    Started =>
        \A v \in VertexValues :
            v.id \notin ReachableIds =>
                /\ v \notin engine.settled_nodes
                /\ v \notin engine.unsettled_nodes
                /\ v.id \notin DOMAIN engine.distance
                /\ v.id \notin DOMAIN engine.predecessors
                /\ get_path(engine, v) = NoPath

\* A run that settled several vertices has returned, and the graph has an edge
\* that leaves a vertex the source does not reach.
C4_Witness ==
    /\ Finished
    /\ Cardinality(engine.settled_nodes) >= 2
    /\ \E e \in EdgeSet : e.source.id \notin ReachableIds

(***************************************************************************)
(* C5  At every step of run(source) and after it, the predecessor map has   *)
(* no entry for the source's id, so get_path(source) is the empty sequence. *)
(***************************************************************************)
C5_SourceHasNoPredecessor ==
    Started =>
        /\ source.id \notin DOMAIN engine.predecessors
        /\ get_path(engine, source) = NoPath

(***************************************************************************)
(* C6  No state leaks between runs: whatever runs came before, the engine's *)
(* settled, unsettled, distance and predecessor state and every get_path    *)
(* result equal those of an engine constructed for this run alone; no id    *)
(* outside the reach of the current source keeps an entry.                  *)
(***************************************************************************)
C6_NoStateLeak ==
    /\ engine.settled_nodes = fresh.settled_nodes
    /\ engine.unsettled_nodes = fresh.unsettled_nodes
    /\ engine.distance = fresh.distance
    /\ engine.predecessors = fresh.predecessors
    /\ \A t \in VertexValues : get_path(engine, t) = get_path(fresh, t)
    /\ Started =>
         (DOMAIN engine.distance) \cup (DOMAIN engine.predecessors) \subseteq ReachableIds

\* A later run has returned, and an id the run before it had reached has no
\* entry now.
C6_Witness ==
    /\ Finished
    /\ Cardinality(DOMAIN engine.distance) >= 2
    /\ Cardinality(earlier) >= 2
    /\ \E id \in earlier : id \notin DOMAIN engine.distance

(***************************************************************************)
(* C7  Determinism of distances: the final distance mapping of run(source)  *)
(* is the same for every iteration order of the unsettled set.              *)
(* FinalDistances is the set of distance maps the runs from an engine state *)
(* can return, over all iteration orders.                                   *)
(***************************************************************************)
RECURSIVE FinalDistances(_, _)
FinalDistances(self, checks) ==
    IF self.unsettled_nodes = {} THEN {self.distance}
    ELSE UNION {LET r == run_iteration(self, o, checks)
                IN IF r.outcome = "ok" THEN FinalDistances(r.engine, checks) ELSE {} :
                    o \in Orders(self.unsettled_nodes)}

C7_DistancesDeterministic ==
    Finished =>
        FinalDistances(run_reset(New(TheGraph), source), overflow_checks) = {engine.distance}

(***************************************************************************)
(* C8  Termination: run(source), once called, eventually reaches the state  *)
(* where unsettled is empty and returns.                                    *)
(***************************************************************************)
C8_RunReturns == (pc = "loop") ~> (pc = "done")

Reachers == {source} \cup {e.destination : e \in EdgeSet}

ParallelWeights(u, t) ==
    {e.weight : e \in {x \in EdgeSet : x.source.id = u /\ x.destination.id = t}}

MinWeight(W) == CHOOSE w \in W : \A x \in W : w <= x

C10_ParallelEdgesMinimum ==
    pc \in {"loop", "done"} =>
        \A u \in engine.settled_nodes : \A t \in AllIds :
            LET W == ParallelWeights(u.id, t)
            IN Cardinality(W) >= 2 =>
                /\ t \in DOMAIN engine.distance
                /\ \/ Overflows(engine.distance[u.id], MinWeight(W))
                   \/ engine.distance[t] <= engine.distance[u.id] + MinWeight(W)

(***************************************************************************)
(* C11  Vertex identity is by id alone: during one run no vertex id is      *)
(* settled more than once (the settled set never holds two Vertex values    *)
(* with the same id), whatever names the edge destinations carry.           *)
(***************************************************************************)
C11_IdSettledOnce ==
    \A u \in engine.settled_nodes : \A v \in engine.settled_nodes :
        u.id = v.id => u = v

(***************************************************************************)
(* C12  Self-loop tolerance: the edges u -> u of the graph (source id and   *)
(* destination id equal) change no final distance, give no vertex itself as *)
(* predecessor, and put no vertex id twice into a get_path result.  The     *)
(* run is compared with the runs, over all iteration orders, on the graph   *)
(* without its self-loops.                                                  *)
(***************************************************************************)
IsSelfLoop(e) == e.source.id = e.destination.id

WithoutSelfLoops == SelectSeq(engine.edges, LAMBDA e : ~IsSelfLoop(e))

\* The engine states the runs from an engine state can return with.
RECURSIVE FinalEngines(_, _)
FinalEngines(self, checks) ==
    IF self.unsettled_nodes = {} THEN {self}
    ELSE UNION {LET r == run_iteration(self, o, checks)
                IN IF r.outcome = "ok" THEN FinalEngines(r.engine, checks) ELSE {} :
                    o \in Orders(self.unsettled_nodes)}

NoRepeat(path) == \A i, j \in 1..Len(path) : path[i] = path[j] => i = j

PathsSimple(self) ==
    \A t \in VertexValues :
        LET r == get_path(self, t) IN ~r.diverges /\ NoRepeat(r.path)

C12_SelfLoopTolerance ==
    (Finished /\ \E e \in EdgeSet : IsSelfLoop(e)) =>
        LET F == FinalEngines(
                    run_reset(New(Graph(engine.nodes, WithoutSelfLoops)), source),
                    overflow_checks)
        IN F # {} =>
            /\ engine.distance \in {f.distance : f \in F}
            /\ \A id \in DOMAIN engine.predecessors : engine.predecessors[id].id # id
            /\ (\A f \in F : PathsSimple(f)) => PathsSimple(engine)

(***************************************************************************)
(* C13  get_path always terminates: in every state a run reaches, the       *)
(* predecessor links contain no cycle, so the walk back from any target     *)
(* ends after at most as many steps as there are predecessor entries.       *)
(***************************************************************************)
C13_GetPathTerminates ==
    \A t \in VertexValues :
        LET r == get_path(engine, t)
        IN /\ ~r.diverges
           /\ Len(r.path) <= Cardinality(DOMAIN engine.predecessors) + 1

(***************************************************************************)
(* C14 as claimed  Scenario B (the graph of tests::simple2): after run(A)   *)
(* the distance of F is 22, and the edge weights along get_path(F) sum to   *)
(* that distance.                                                           *)
(***************************************************************************)
ScenarioB == Finished /\ TheGraph = Simple2Graph /\ source = VA

PathWeightIs(target, n) ==
    LET r == get_path(engine, target)
    IN ~r.diverges /\ Len(r.path) > 0 /\ Fits(n) \in SequenceWeights(r.path, 1)

C14_DistanceF22 ==
    ScenarioB =>
        /\ "F" \in DOMAIN engine.distance
        /\ engine.distance["F"] = 22
        /\ PathWeightIs(VF, engine.distance["F"])

(***************************************************************************)
(* C14 amended  Scenario B: after run(A) the distance of F is 21 (the path  *)
(* A, B, E, F: 10 + 10 + 1), and the edge weights along get_path(F) sum to  *)
(* that distance.                                                           *)
(***************************************************************************)
C14_DistanceF21 ==
    ScenarioB =>
        /\ "F" \in DOMAIN engine.distance
        /\ engine.distance["F"] = 21
        /\ PathWeightIs(VF, engine.distance["F"])
        /\ get_path(engine, VF).path = <<"A", "B", "E", "F">>

\* run(A) has returned on the graph of scenario B, all six vertices settled.
C14_Witness == ScenarioB /\ Cardinality(engine.settled_nodes) = 6

(***************************************************************************)
(* C15  Exactly-one-state invariant: after every loop iteration of run,     *)
(* every vertex (a vertex being its id) is in exactly one of unreached (no  *)
(* distance entry), unsettled or settled: settled and unsettled are         *)
(* disjoint, every vertex in either set has a distance entry, and every     *)
(* vertex with a distance entry is in one of the two sets.                  *)
(***************************************************************************)
IdsOf(S) == {v.id : v \in S}

AfterIteration == pc \in {"loop", "done"}

C15_ExactlyOneState ==
    AfterIteration =>
        /\ IdsOf(engine.settled_nodes) \cap IdsOf(engine.unsettled_nodes) = {}
        /\ IdsOf(engine.settled_nodes \cup engine.unsettled_nodes)
               \subseteq DOMAIN engine.distance
        /\ DOMAIN engine.distance
               \subseteq IdsOf(engine.settled_nodes \cup engine.unsettled_nodes)

(***************************************************************************)
(* C16  Settled finality: within one run, once a vertex (its id) has        *)
(* entered settled, no later step of that run takes it out of settled, puts *)
(* it into unsettled, or writes its distance entry or its predecessor       *)
(* entry.                                                                   *)
(***************************************************************************)
EntryOf(map, id) == IF id \in DOMAIN map THEN <<map[id]>> ELSE << >>

SettledStays(old, new) ==
    \A v \in old.settled_nodes :
        /\ v \in new.settled_nodes
        /\ v.id \in IdsOf(new.unsettled_nodes) => v.id \in IdsOf(old.unsettled_nodes)
        /\ EntryOf(new.distance, v.id) = EntryOf(old.distance, v.id)
        /\ EntryOf(new.predecessors, v.id) = EntryOf(old.predecessors, v.id)

C16_SettledFinality == [][pc = "loop" => SettledStays(engine, engine')]_vars

(***************************************************************************)
(* C17  Minimum selection: in every loop iteration of run, for every        *)
(* iteration order of the unsettled set, the vertex chosen to be settled    *)
(* has a distance less than or equal to that of every vertex in unsettled;  *)
(* and in every completed run the vertices are settled in non-decreasing    *)
(* order of their final distance.                                           *)
(***************************************************************************)
Chosen(old, new) == new.settled_nodes \ old.settled_nodes

ChosenIsMinimal(old, new) ==
    \A c \in Chosen(old, new) : \A v \in old.unsettled_nodes :
        get_shortest_distance(old, c) <= get_shortest_distance(old, v)

\* Every completed run from self: the order of settling and the final engine.
RECURSIVE SettleOrders(_, _, _)
SettleOrders(self, checks, order) ==
    IF self.unsettled_nodes = {} THEN {[order |-> order, engine |-> self]}
    ELSE UNION {LET r == run_iteration(self, o, checks)
                IN IF r.outcome = "ok"
                   THEN SettleOrders(r.engine, checks,
                            Append(order, CHOOSE c \in Chosen(self, r.engine) : TRUE))
                   ELSE {} :
                    o \in Orders(self.unsettled_nodes)}

NonDecreasing(r) ==
    \A i, j \in 1..Len(r.order) :
        i < j => get_shortest_distance(r.engine, r.order[i])
                     <= get_shortest_distance(r.engine, r.order[j])

RunStarted == pc = "loop" /\ iterations = 0

C17_MinimumSelection ==
    /\ [][pc = "loop" => ChosenIsMinimal(engine, engine')]_vars
    /\ [](RunStarted =>
            \A r \in SettleOrders(engine, overflow_checks, << >>) : NonDecreasing(r))

(***************************************************************************)
(* C18  Relaxation: when u is settled and its relax step has completed,     *)
(* every edge (u -> t, w) to a not settled t without a distance entry       *)
(* leaves t with a distance entry, predecessor[t] = u and t in unsettled,   *)
(* whatever the non-negative weight w; and a reached t in unsettled has     *)
(* its distance updated exactly when distance[u] + w < distance[t] for an   *)
(* edge from u to t.                                                        *)
(***************************************************************************)
OutEdges(self, u) ==
    {self.edges[i] : i \in {j \in 1..Len(self.edges) : self.edges[j].source.id = u.id}}

Improves(old, u, e, t) ==
    /\ e.destination.id = t.id
    /\ old.distance[u.id] + e.weight < old.distance[t.id]

RelaxedUnreached(old, new, u, t) ==
    /\ t.id \in DOMAIN new.distance
    /\ EntryOf(new.predecessors, t.id) = <<u>>
    /\ t \in new.unsettled_nodes

RelaxedReached(old, new, u, t) ==
    new.distance[t.id] # old.distance[t.id]
        <=> \E e \in OutEdges(old, u) : Improves(old, u, e, t)

Relaxation(old, new) ==
    \A u \in Chosen(old, new) : \A e \in OutEdges(old, u) :
        LET t == e.destination
        IN t \notin new.settled_nodes =>
              /\ t.id \notin DOMAIN old.distance => RelaxedUnreached(old, new, u, t)
              /\ (t.id \in DOMAIN old.distance /\ t \in old.unsettled_nodes)
                     => RelaxedReached(old, new, u, t)

C18_Relaxation ==
    [][(pc = "loop" /\ pc' \in {"loop", "done"}) => Relaxation(engine, engine')]_vars

(***************************************************************************)
(* C19  The fatal branch is unreachable: in every state reachable by run,   *)
(* whenever unsettled is non-empty get_minimum returns a vertex for every   *)
(* iteration order, so panic!("Error") is never executed; and a run on an   *)
(* empty graph or from an isolated source settles the source alone and      *)
(* leaves the loop normally, as does a run that leaves vertices unreached.  *)
(***************************************************************************)
IsolatedSource == \A e \in EdgeSet : e.source.id # source.id

MinimumFound ==
    \A vertices \in Orders(engine.unsettled_nodes) :
        Len(vertices) > 0 => get_minimum(engine, vertices) # << >>

C19_FatalBranchUnreachable ==
    /\ pc # "panic_error"
    /\ pc = "loop" => MinimumFound
    /\ (Started /\ IsolatedSource) =>
          /\ pc \in {"loop", "done"}
          /\ iterations <= 1
          /\ iterations = 1 => engine.unsettled_nodes = {}
          /\ pc = "done" => engine.distance = MapInsert(EmptyMap, source.id, 0)

\* A run over several iterations has returned and left a vertex unreached.
C19_Witness ==
    /\ Finished
    /\ iterations >= 2
    /\ AllIds \ DOMAIN engine.distance # {}

\* A run from an isolated source on a graph with edges has returned.
C19_WitnessIsolated == Finished /\ IsolatedSource /\ EdgeSet # {}

(***************************************************************************)
(* C20  No arithmetic overflow: for every graph with non-negative i32       *)
(* weights and every source, every sum distance[u] + weight computed        *)
(* during run stays within the i32 range: the checked addition never        *)
(* panics and no stored distance is negative or wrapped.                    *)
(***************************************************************************)
C20_NoOverflow ==
    /\ pc # "panic_overflow"
    /\ \A id \in DOMAIN engine.distance :
          engine.distance[id] >= 0 /\ engine.distance[id] <= I32_MAX

====
